---- MODULE Spec2Model ----
(***************************************************************************)
(* Three leaf components of the editor:                                    *)
(*   - ThemingRegistry (theme service): an ordered list of theming         *)
(*     participants with disposal handles;                                 *)
(*   - TypeScriptDocumentSymbolProvider: conversion of a navigation tree   *)
(*     into document symbols;                                              *)
(*   - quickInputActions: derivation and registration of the quick-pick    *)
(*     navigation keybinding rules.                                        *)
(* Each component has its own specification over the shared variables.     *)
(***************************************************************************)
EXTENDS Integers, Sequences, FiniteSets, TLC

VARIABLES
    themingParticipants, \* ThemingRegistry.themingParticipants
    handles,             \* the IDisposable closures handed out, in order
    lastOp,              \* the last registry call and the list it found
    symPc,               \* position inside provideDocumentSymbols
    response,            \* outcome of client.execute('navtree', ...)
    symResult,           \* what provideDocumentSymbols resolved to
    isMacintosh,         \* vs/base/common/platform isMacintosh
    registry,            \* KeybindingsRegistry: the rules registered so far
    loaded,              \* number of module-level registrations executed
    baseRule,            \* a caller-owned base rule object
    baseRule0,           \* the same object as the caller created it
    options,             \* the modifier options passed with baseRule
    built                \* secondary lists of the rules built from baseRule

themeVars == <<themingParticipants, handles, lastOp>>
symVars == <<symPc, response, symResult>>
keyVars == <<isMacintosh, registry, loaded, baseRule, baseRule0, options, built>>
vars == <<themeVars, symVars, keyVars>>

(***************************************************************************)
(* Generic sequence helpers with the semantics of the JavaScript array     *)
(* methods the code calls.                                                 *)
(***************************************************************************)
Max(a, b) == IF a >= b THEN a ELSE b

Min(a, b) == IF a <= b THEN a ELSE b

\* Array.prototype.indexOf: 0-based index of the first occurrence, else -1.
IndexOf(arr, x) ==
    IF \E i \in 1..Len(arr) : arr[i] = x
    THEN (CHOOSE i \in 1..Len(arr) :
             arr[i] = x /\ \A j \in 1..(i - 1) : arr[j] # x) - 1
    ELSE -1

\* Array.prototype.splice(start, deleteCount) without inserted items: a
\* negative start counts from the end of the array.
Splice(arr, start, deleteCount) ==
    LET len == Len(arr)
        from == IF start < 0 THEN Max(len + start, 0) ELSE Min(start, len)
        cnt == Min(Max(deleteCount, 0), len - from)
    IN  SubSeq(arr, 1, from) \o SubSeq(arr, from + cnt + 1, len)

(***************************************************************************)
(* Theming participant registry                                            *)
(***************************************************************************)
Participants == {"p1", "p2"}

MaxRegistrations == 3

MaxDisposeCalls == 2

NoOp == [op |-> "none", handle |-> 0, before |-> <<>>, again |-> FALSE,
         fresh |-> FALSE]

ThemingRegistryInit ==
    /\ themingParticipants = <<>>
    /\ handles = <<>>
    /\ lastOp = NoOp

\* onThemeChange(participant): push and hand out the disposal closure.
onThemeChange(participant) ==
    /\ Len(handles) < MaxRegistrations
    /\ themingParticipants' = Append(themingParticipants, participant)
    /\ handles' = Append(handles, [participant |-> participant,
                                   before |-> themingParticipants,
                                   disposeCalls |-> 0])
    /\ lastOp' = [op |-> "register", handle |-> Len(handles) + 1,
                  before |-> themingParticipants, again |-> FALSE,
                  fresh |-> FALSE]
    /\ UNCHANGED <<symVars, keyVars>>

\* The body of the dispose closure of one handle.
disposeBody(list, participant) ==
    LET idx == IndexOf(list, participant)
    IN  Splice(list, idx, 1)

\* dispose() of handle h.
dispose(h) ==
    /\ handles[h].disposeCalls < MaxDisposeCalls
    /\ themingParticipants' =
           disposeBody(themingParticipants, handles[h].participant)
    /\ handles' = [handles EXCEPT ![h].disposeCalls = @ + 1]
    /\ lastOp' = [op |-> "dispose", handle |-> h,
                  before |-> themingParticipants,
                  again |-> handles[h].disposeCalls > 0,
                  fresh |-> lastOp.op = "register" /\ lastOp.handle = h]
    /\ UNCHANGED <<symVars, keyVars>>

getThemingParticipants == themingParticipants

(***************************************************************************)
(* Document symbol provider                                                *)
(*                                                                         *)
(* A navigation tree is a record [childItems, nodes]: childItems tells     *)
(* whether the root carries a childItems array, nodes[i] is the i-th node  *)
(* below the root in document order with its text, its kind, its first     *)
(* span and the index of its parent (0 is the root, the file).             *)
(***************************************************************************)
MaxNodes == 3

\* The (text, kind) pairs the nodes are drawn from: they cover every branch
\* of shouldInclueEntry.
Labels ==
    { [text |-> "x", kind |-> "var"],
      [text |-> "<function>", kind |-> "function"],
      [text |-> "<class>", kind |-> "class"],
      [text |-> "", kind |-> "method"],
      [text |-> "a", kind |-> "alias"] }

KindAlias == "alias"

\* Proto.NavigationTree values with n nodes below the root.
NavTreesOfSize(n) ==
    { [childItems |-> TRUE,
       nodes |-> [i \in 1..n |->
                    [text |-> lab[i].text, kind |-> lab[i].kind,
                     span |-> i, parent |-> par[i]]]] :
        lab \in [1..n -> Labels],
        par \in { f \in [1..n -> 0..(n - 1)] : \A i \in 1..n : f[i] < i } }

NavTrees ==
    UNION { NavTreesOfSize(n) : n \in 0..MaxNodes }
      \cup { [childItems |-> FALSE, nodes |-> <<>>] }

\* The indices in S in increasing order.
RECURSIVE SortedSeq(_)
SortedSeq(S) ==
    IF S = {} THEN <<>>
    ELSE LET m == CHOOSE x \in S : \A y \in S : x <= y
         IN  <<m>> \o SortedSeq(S \ {m})

\* item.childItems of node item (tree.childItems for item = 0).
ChildItems(t, item) ==
    SortedSeq({ j \in 1..Len(t.nodes) : t.nodes[j].parent = item })

\* The kinds are the strings of PConst.Kind (protocol.const).
getSymbolKind(kind) ==
    CASE kind = "module" -> "Module"
      [] kind = "class" -> "Class"
      [] kind = "enum" -> "Enum"
      [] kind = "interface" -> "Interface"
      [] kind = "method" -> "Method"
      [] kind = "property" -> "Property"
      [] kind = "getter" -> "Property"
      [] kind = "setter" -> "Property"
      [] kind = "var" -> "Variable"
      [] kind = "const" -> "Variable"
      [] kind = "local var" -> "Variable"
      [] kind = "function" -> "Function"
      [] kind = "local function" -> "Function"
      [] OTHER -> "Variable"

\* typeConverters.Range.fromTextSpan: protocol lines are 1-based, editor
\* lines 0-based.
fromTextSpan(span) == span - 1

\* Variant: the alias check left out.
shouldInclueEntryNoAlias(item) ==
    item.text # "" /\ item.text # "<function>" /\ item.text # "<class>"

shouldInclueEntry(item) ==
    IF item.kind = KindAlias
    THEN FALSE
    ELSE item.text # "" /\ item.text # "<function>" /\ item.text # "<class>"

\* The symbol as convertNavTree constructs it, before its children are added.
newDocumentSymbol(item) ==
    [name |-> item.text, detail |-> "", kind |-> getSymbolKind(item.kind),
     range |-> fromTextSpan(item.span),
     selectionRange |-> fromTextSpan(item.span), children |-> <<>>]

\* Variant: the push without its guard.
pushAlways(bucket, symbolInfo, shouldInclude) == Append(bucket, symbolInfo)

\* bucket.push(symbolInfo) when shouldInclude.
pushIfIncluded(bucket, symbolInfo, shouldInclude) ==
    IF shouldInclude THEN Append(bucket, symbolInfo) ELSE bucket

\* Variant: the children's inclusion is not propagated.
orIncludedDropped(shouldInclude, includedChild) == shouldInclude

\* shouldInclude = shouldInclude || includedChild
orIncluded(shouldInclude, includedChild) == shouldInclude \/ includedChild

\* convertNavTree(resource, bucket, item) returns the bucket after the call
\* and the boolean the call returns; convertChildren is its loop over
\* item.childItems from position k, acc holding symbolInfo.children and
\* shouldInclude.
RECURSIVE convertNavTree(_, _, _), convertChildren(_, _, _, _)
convertChildren(t, acc, kids, k) ==
    IF k > Len(kids) THEN acc
    ELSE LET r == convertNavTree(t, acc.children, kids[k])
         IN  convertChildren(t,
                 [children |-> r.bucket,
                  shouldInclude |-> orIncluded(acc.shouldInclude, r.included)],
                 kids, k + 1)

convertNavTree(t, bucket, i) ==
    LET item == t.nodes[i]
        acc == convertChildren(t,
                   [children |-> <<>>,
                    shouldInclude |-> shouldInclueEntry(item)],
                   ChildItems(t, i), 1)
        symbolInfo == [newDocumentSymbol(item) EXCEPT !.children = acc.children]
    IN  [bucket |-> pushIfIncluded(bucket, symbolInfo, acc.shouldInclude),
         included |-> acc.shouldInclude]

\* tree.childItems.forEach(item => convertNavTree(resource.uri, result, item))
RECURSIVE convertTopLevel(_, _, _, _)
convertTopLevel(t, result, kids, k) ==
    IF k > Len(kids) THEN result
    ELSE convertTopLevel(t, convertNavTree(t, result, kids[k]).bucket,
                         kids, k + 1)

Undefined == [kind |-> "undefined", symbols |-> <<>>]

Pending == [kind |-> "pending", symbols |-> <<>>]

NoResponse == [outcome |-> "none", tree |-> [childItems |-> FALSE, nodes |-> <<>>]]

\* The part of provideDocumentSymbols after the try block.
symbolsOfTree(t) ==
    IF t.childItems
    THEN [kind |-> "symbols",
          symbols |-> convertTopLevel(t, <<>>, ChildItems(t, 0), 1)]
    ELSE Undefined

\* Variant: the request awaited outside the try block.
onRejectedUncaught == [kind |-> "thrown", symbols |-> <<>>]

\* catch { return undefined; }
onRejected == Undefined

DocumentSymbolInit ==
    /\ symPc = "start"
    /\ response = NoResponse
    /\ symResult = Pending

\* provideDocumentSymbols up to the await: toPath, then the request.
provideDocumentSymbols(file) ==
    /\ symPc = "start"
    /\ IF file
       THEN /\ symPc' = "awaiting"
            /\ symResult' = Pending
            /\ response' = NoResponse
       ELSE /\ symPc' = "done"
            /\ symResult' = Undefined
            /\ response' = [NoResponse EXCEPT !.outcome = "noFile"]
    /\ UNCHANGED <<themeVars, keyVars>>

\* The request is rejected, by the server or because the token was cancelled.
executeRejected(why) ==
    /\ symPc = "awaiting"
    /\ symPc' = "done"
    /\ response' = [NoResponse EXCEPT !.outcome = why]
    /\ symResult' = onRejected
    /\ UNCHANGED <<themeVars, keyVars>>

\* The request resolves to a response without body.
executeNoBody ==
    /\ symPc = "awaiting"
    /\ symPc' = "done"
    /\ response' = [NoResponse EXCEPT !.outcome = "noBody"]
    /\ symResult' = Undefined
    /\ UNCHANGED <<themeVars, keyVars>>

\* The request resolves to a response with body t.
executeBody(t) ==
    /\ symPc = "awaiting"
    /\ symPc' = "done"
    /\ response' = [outcome |-> "body", tree |-> t]
    /\ symResult' = symbolsOfTree(t)
    /\ UNCHANGED <<themeVars, keyVars>>

(***************************************************************************)
(* Quick-pick navigation keybindings                                       *)
(***************************************************************************)
\* KeyMod and KeyCode values of vs/base/common/keyCodes: each modifier is
\* one bit above the key codes, and a chord is the sum of its parts.
KeyModCtrlCmd == 2048

KeyModShift == 1024

KeyModAlt == 512

KeyModWinCtrl == 256

KeyCodePageUp == 11

KeyCodePageDown == 12

KeyCodeEnd == 13

KeyCodeHome == 14

KeyCodeUpArrow == 16

KeyCodeDownArrow == 18

MaxBuilds == 2

NoOptions == [withAltMod |-> FALSE, withCtrlMod |-> FALSE, withCmdMod |-> FALSE]

AllOptions == [withAltMod |-> TRUE, withCtrlMod |-> TRUE, withCmdMod |-> TRUE]

CtrlOption == [NoOptions EXCEPT !.withCtrlMod = TRUE]

OptionSets == [withAltMod : BOOLEAN, withCtrlMod : BOOLEAN, withCmdMod : BOOLEAN]

\* secondary.push(x) when cond.
PushIf(cond, arr, x) == IF cond THEN Append(arr, x) ELSE arr

\* Variant: ctrlKeyMod is CtrlCmd on every platform.
getSecondaryCtrlCmdEverywhere(mac, primary, secondary, opts) ==
    LET s1 == PushIf(opts.withAltMod, secondary, KeyModAlt + primary)
        ctrlKeyMod == KeyModCtrlCmd
        s2 == PushIf(opts.withCtrlMod, s1, ctrlKeyMod + primary)
        s3 == PushIf(opts.withCtrlMod /\ opts.withAltMod, s2,
                     KeyModAlt + ctrlKeyMod + primary)
        cmd == opts.withCmdMod /\ mac
        s4 == PushIf(cmd, s3, KeyModCtrlCmd + primary)
        s5 == PushIf(cmd /\ opts.withCtrlMod, s4,
                     KeyModCtrlCmd + KeyModWinCtrl + primary)
        s6 == PushIf(cmd /\ opts.withAltMod, s5,
                     KeyModCtrlCmd + KeyModAlt + primary)
        s7 == PushIf(cmd /\ opts.withAltMod /\ opts.withCtrlMod, s6,
                     KeyModCtrlCmd + KeyModAlt + KeyModWinCtrl + primary)
    IN  s7

\* Variant: the command combinations are not gated on isMacintosh.
getSecondaryCmdEverywhere(mac, primary, secondary, opts) ==
    LET s1 == PushIf(opts.withAltMod, secondary, KeyModAlt + primary)
        ctrlKeyMod == IF mac THEN KeyModWinCtrl ELSE KeyModCtrlCmd
        s2 == PushIf(opts.withCtrlMod, s1, ctrlKeyMod + primary)
        s3 == PushIf(opts.withCtrlMod /\ opts.withAltMod, s2,
                     KeyModAlt + ctrlKeyMod + primary)
        cmd == opts.withCmdMod
        s4 == PushIf(cmd, s3, KeyModCtrlCmd + primary)
        s5 == PushIf(cmd /\ opts.withCtrlMod, s4,
                     KeyModCtrlCmd + KeyModWinCtrl + primary)
        s6 == PushIf(cmd /\ opts.withAltMod, s5,
                     KeyModCtrlCmd + KeyModAlt + primary)
        s7 == PushIf(cmd /\ opts.withAltMod /\ opts.withCtrlMod, s6,
                     KeyModCtrlCmd + KeyModAlt + KeyModWinCtrl + primary)
    IN  s7

\* getSecondary(primary, secondary, options) on platform mac: the contents
\* of the array `secondary` when the call returns, which is also the array
\* returned.
getSecondary(mac, primary, secondary, opts) ==
    LET s1 == PushIf(opts.withAltMod, secondary, KeyModAlt + primary)
        ctrlKeyMod == IF mac THEN KeyModWinCtrl ELSE KeyModCtrlCmd
        s2 == PushIf(opts.withCtrlMod, s1, ctrlKeyMod + primary)
        s3 == PushIf(opts.withCtrlMod /\ opts.withAltMod, s2,
                     KeyModAlt + ctrlKeyMod + primary)
        cmd == opts.withCmdMod /\ mac
        s4 == PushIf(cmd, s3, KeyModCtrlCmd + primary)
        s5 == PushIf(cmd /\ opts.withCtrlMod, s4,
                     KeyModCtrlCmd + KeyModWinCtrl + primary)
        s6 == PushIf(cmd /\ opts.withAltMod, s5,
                     KeyModCtrlCmd + KeyModAlt + primary)
        s7 == PushIf(cmd /\ opts.withAltMod /\ opts.withCtrlMod, s6,
                     KeyModCtrlCmd + KeyModAlt + KeyModWinCtrl + primary)
    IN  s7

\* A rule object as a caller writes it: secondary may be left out.
Rule(id, primary) ==
    [id |-> id, primary |-> primary, hasSecondary |-> FALSE, secondary |-> <<>>]

RuleWithSecondary(id, primary, secondary) ==
    [id |-> id, primary |-> primary, hasSecondary |-> TRUE,
     secondary |-> secondary]

\* rule.secondary ?? []
secondaryOrEmpty(rule) == IF rule.hasSecondary THEN rule.secondary ELSE <<>>

\* The rule registerQuickPickCommandAndKeybindingRule hands to
\* KeybindingsRegistry.registerCommandAndKeybindingRule.
finalRule(mac, rule, opts) ==
    [id |-> rule.id, primary |-> rule.primary,
     weight |-> "WorkbenchContrib", when |-> "inQuickPick",
     secondary |-> getSecondary(mac, rule.primary, secondaryOrEmpty(rule), opts)]

\* The caller's rule object after the call: getSecondary pushes onto the
\* array it is given, which is rule.secondary when the rule has one.
ruleAfterCall(mac, rule, opts) ==
    IF rule.hasSecondary
    THEN [rule EXCEPT !.secondary =
              getSecondary(mac, rule.primary, rule.secondary, opts)]
    ELSE rule

\* The module-level registrations, in source order.
NavigationRules ==
    << [rule |-> Rule("quickInput.pageNext", KeyCodePageDown), opts |-> AllOptions],
       [rule |-> Rule("quickInput.pagePrevious", KeyCodePageUp), opts |-> AllOptions],
       [rule |-> Rule("quickInput.first", KeyCodeHome), opts |-> AllOptions],
       [rule |-> Rule("quickInput.last", KeyCodeEnd), opts |-> AllOptions],
       [rule |-> Rule("quickInput.next", KeyCodeDownArrow), opts |-> CtrlOption],
       [rule |-> Rule("quickInput.previous", KeyCodeUpArrow), opts |-> CtrlOption] >>

MacSeparatorRules ==
    << [rule |-> Rule("quickInput.nextSeparatorWithQuickAccessFallback",
                      KeyModCtrlCmd + KeyCodeDownArrow),
        opts |-> NoOptions],
       [rule |-> RuleWithSecondary("quickInput.nextSeparator",
                      KeyModCtrlCmd + KeyModAlt + KeyCodeDownArrow,
                      <<KeyModCtrlCmd + KeyModWinCtrl + KeyCodeDownArrow>>),
        opts |-> CtrlOption],
       [rule |-> Rule("quickInput.previousSeparatorWithQuickAccessFallback",
                      KeyModCtrlCmd + KeyCodeUpArrow),
        opts |-> NoOptions],
       [rule |-> RuleWithSecondary("quickInput.previousSeparator",
                      KeyModCtrlCmd + KeyModAlt + KeyCodeUpArrow,
                      <<KeyModCtrlCmd + KeyModWinCtrl + KeyCodeUpArrow>>),
        opts |-> CtrlOption] >>

OtherSeparatorRules ==
    << [rule |-> Rule("quickInput.nextSeparatorWithQuickAccessFallback",
                      KeyModAlt + KeyCodeDownArrow),
        opts |-> NoOptions],
       [rule |-> Rule("quickInput.nextSeparator",
                      KeyModCtrlCmd + KeyModAlt + KeyCodeDownArrow),
        opts |-> NoOptions],
       [rule |-> Rule("quickInput.previousSeparatorWithQuickAccessFallback",
                      KeyModAlt + KeyCodeUpArrow),
        opts |-> NoOptions],
       [rule |-> Rule("quickInput.previousSeparator",
                      KeyModCtrlCmd + KeyModAlt + KeyCodeUpArrow),
        opts |-> NoOptions] >>

ModuleRules(mac) ==
    NavigationRules \o (IF mac THEN MacSeparatorRules ELSE OtherSeparatorRules)

\* The base rules and options a caller may build from.
Primaries ==
    { KeyCodeDownArrow, KeyCodePageDown,
      KeyModCtrlCmd + KeyModAlt + KeyCodeDownArrow }

BaseRules ==
    { Rule("test.rule", p) : p \in Primaries }
      \cup { RuleWithSecondary("test.rule", p, s) :
                p \in Primaries,
                s \in { <<>>, <<KeyModShift + KeyCodeDownArrow>> } }

KeybindingInit ==
    /\ isMacintosh \in BOOLEAN
    /\ registry = <<>>
    /\ loaded = 0
    /\ baseRule \in BaseRules
    /\ baseRule0 = baseRule
    /\ options \in OptionSets
    /\ built = <<>>

\* registerQuickPickCommandAndKeybindingRule(rule, options) as the module
\* executes its next top-level registration.
registerModuleRule ==
    /\ loaded < Len(ModuleRules(isMacintosh))
    /\ LET r == ModuleRules(isMacintosh)[loaded + 1]
       IN  registry' = Append(registry, finalRule(isMacintosh, r.rule, r.opts))
    /\ loaded' = loaded + 1
    /\ UNCHANGED <<isMacintosh, baseRule, baseRule0, options, built>>
    /\ UNCHANGED <<themeVars, symVars>>

\* registerQuickPickCommandAndKeybindingRule(baseRule, options) called on
\* the caller's rule object.
registerQuickPickCommandAndKeybindingRule ==
    /\ Len(built) < MaxBuilds
    /\ LET final == finalRule(isMacintosh, baseRule, options)
       IN  /\ registry' = Append(registry, final)
           /\ built' = Append(built, final.secondary)
    /\ baseRule' = ruleAfterCall(isMacintosh, baseRule, options)
    /\ UNCHANGED <<isMacintosh, loaded, baseRule0, options>>
    /\ UNCHANGED <<themeVars, symVars>>

(***************************************************************************)
(* Specifications, one per component; the other components stay idle.      *)
(***************************************************************************)
KeybindingIdle ==
    /\ isMacintosh = FALSE
    /\ registry = <<>>
    /\ loaded = 0
    /\ baseRule = Rule("test.rule", KeyCodeDownArrow)
    /\ baseRule0 = baseRule
    /\ options = NoOptions
    /\ built = <<>>

ThemingInit == ThemingRegistryInit /\ DocumentSymbolInit /\ KeybindingIdle

ThemingNext ==
    \/ \E participant \in Participants : onThemeChange(participant)
    \/ \E h \in 1..Len(handles) : dispose(h)

ThemingSpec == ThemingInit /\ [][ThemingNext]_vars

SymbolInit == ThemingRegistryInit /\ DocumentSymbolInit /\ KeybindingIdle

SymbolNext ==
    \/ \E file \in BOOLEAN : provideDocumentSymbols(file)
    \/ \E why \in {"rejected", "cancelled"} : executeRejected(why)
    \/ executeNoBody
    \/ \E t \in NavTrees : executeBody(t)

SymbolSpec == SymbolInit /\ [][SymbolNext]_vars

KeybindingSpecInit == ThemingRegistryInit /\ DocumentSymbolInit /\ KeybindingInit

KeybindingNext ==
    \/ registerModuleRule
    \/ registerQuickPickCommandAndKeybindingRule

KeybindingSpec == KeybindingSpecInit /\ [][KeybindingNext]_vars

(***************************************************************************)
(* Properties of the theming participant registry                          *)
(***************************************************************************)
\* The participants of the registrations not yet disposed, in registration
\* order.
LiveParticipants ==
    LET live == SelectSeq(handles, LAMBDA r : r.disposeCalls = 0)
    IN  [i \in 1..Len(live) |-> live[i].participant]

\* C1: disposing a handle that was already disposed leaves the participant
\* list as it was.
C1_RedisposeIsNoOp ==
    (lastOp.op = "dispose" /\ lastOp.again)
        => getThemingParticipants = lastOp.before

\* C2: registering a participant and disposing the returned handle right
\* away gives back the participant sequence from before the registration.
C2_RegisterThenDisposeRestores ==
    (lastOp.op = "dispose" /\ lastOp.fresh)
        => getThemingParticipants = handles[lastOp.handle].before

\* C3: as long as no handle is disposed twice, the participant list is the
\* list of participants of the undisposed registrations in registration
\* order.
C3_LiveInRegistrationOrder ==
    (\A h \in 1..Len(handles) : handles[h].disposeCalls <= 1)
        => getThemingParticipants = LiveParticipants

(***************************************************************************)
(* Properties of the document symbol conversion                            *)
(***************************************************************************)
\* The inclusion filter as the component's contract words it.
PassesFilter(node) ==
    /\ node.kind # "alias"
    /\ node.text \notin {"", "<function>", "<class>"}

\* The proper ancestors of node i (the root, 0, among them).
RECURSIVE Ancestors(_, _)
Ancestors(t, i) ==
    IF i = 0 THEN {}
    ELSE {t.nodes[i].parent} \cup Ancestors(t, t.nodes[i].parent)

HasPassingDescendant(t, i) ==
    \E j \in 1..Len(t.nodes) :
        i \in Ancestors(t, j) /\ PassesFilter(t.nodes[j])

\* The symbols of a list at every depth, each paired with the range of the
\* symbol whose children list holds it (parentRange for the list itself).
RECURSIVE SymbolPlaces(_, _)
SymbolPlaces(symbols, parentRange) ==
    UNION { {<<symbols[k].range, parentRange>>}
              \cup SymbolPlaces(symbols[k].children, symbols[k].range) :
            k \in 1..Len(symbols) }

RECURSIVE SymbolCount(_)
SymbolCount(symbols) ==
    IF symbols = <<>> THEN 0
    ELSE 1 + SymbolCount(Head(symbols).children) + SymbolCount(Tail(symbols))

\* The range of the symbol made from node i; the root would map to -1.
RangeOf(i) == i - 1

Converted == symPc = "done" /\ symResult.kind = "symbols"

OutputPlaces == SymbolPlaces(symResult.symbols, RangeOf(0))

InOutput(i) == \E pl \in OutputPlaces : pl[1] = RangeOf(i)

Nodes == 1..Len(response.tree.nodes)

Node(i) == response.tree.nodes[i]

\* C4 as stated: a node that fails the inclusion filter never appears in
\* the output (its qualifying descendants being moved up).
C4_FilteredNodeDropped ==
    Converted => \A i \in Nodes : ~PassesFilter(Node(i)) => ~InOutput(i)

\* C4 amended: a node that fails the inclusion filter is dropped exactly
\* when none of its descendants passes the filter; otherwise it stays in
\* the output with its own name, and every symbol of the output sits in the
\* children list of the symbol of its own parent node (nothing is moved up).
C4_FilteredNodeKeptForDescendants ==
    Converted =>
        /\ \A i \in Nodes :
              ~PassesFilter(Node(i)) =>
                  (InOutput(i) <=> HasPassingDescendant(response.tree, i))
        /\ \A pl \in OutputPlaces :
              \E i \in Nodes :
                  /\ pl[1] = RangeOf(i)
                  /\ pl[2] = RangeOf(Node(i).parent)

C4_Witness ==
    /\ Converted
    /\ Len(response.tree.nodes) = 2
    /\ Node(1).text = "<function>" /\ Node(1).kind = "function"
    /\ Node(2).text = "x" /\ Node(2).kind = "var" /\ Node(2).parent = 1
    /\ Len(symResult.symbols) = 1
    /\ symResult.symbols[1].name = "<function>"
    /\ Len(symResult.symbols[1].children) = 1
    /\ symResult.symbols[1].children[1].name = "x"

\* C5 as stated: no symbol of the output, at any depth, comes from a node
\* of the alias kind.
C5_AliasNeverInOutput ==
    Converted => \A i \in Nodes : Node(i).kind = "alias" => ~InOutput(i)

\* C5 amended: a node of the alias kind is in the output exactly when one
\* of its descendants passes the inclusion filter; an alias node without
\* such a descendant never appears, whatever its text.
C5_AliasOnlyForDescendants ==
    Converted =>
        \A i \in Nodes :
            Node(i).kind = "alias" =>
                (InOutput(i) <=> HasPassingDescendant(response.tree, i))

C5_Witness ==
    /\ Converted
    /\ \E i, j \in Nodes :
          /\ Node(i).kind = "alias" /\ ~HasPassingDescendant(response.tree, i)
          /\ ~InOutput(i)
          /\ Node(j).kind = "alias" /\ InOutput(j)

\* C6: a node is in the output, in the children list of its parent's symbol
\* (the top-level list for children of the root), exactly when it or one of
\* its descendants passes the inclusion filter; the output holds nothing
\* else, and the root never appears.
C6_IncludedIffSelfOrDescendantPasses ==
    Converted =>
        /\ \A i \in Nodes :
              (<<RangeOf(i), RangeOf(Node(i).parent)>> \in OutputPlaces)
                  <=> (PassesFilter(Node(i))
                         \/ HasPassingDescendant(response.tree, i))
        /\ \A pl \in OutputPlaces :
              \E i \in Nodes :
                  pl = <<RangeOf(i), RangeOf(Node(i).parent)>>
        /\ SymbolCount(symResult.symbols) = Cardinality(OutputPlaces)
        /\ ~InOutput(0)

C6_Witness ==
    /\ Converted
    /\ Len(response.tree.nodes) = 3
    /\ Node(2).parent = 1 /\ Node(3).parent = 2
    /\ ~PassesFilter(Node(1)) /\ ~PassesFilter(Node(2))
    /\ PassesFilter(Node(3))
    /\ InOutput(1) /\ InOutput(2) /\ InOutput(3)

Range(seq) == { seq[k] : k \in 1..Len(seq) }

\* The array getSecondary was given at the k-th build from baseRule.
BaseOfBuild(k) ==
    IF ~baseRule0.hasSecondary THEN <<>>
    ELSE IF k = 1 THEN baseRule0.secondary
    ELSE built[k - 1]

\* What the k-th build appended to that array.
AddedByBuild(k) == SubSeq(built[k], Len(BaseOfBuild(k)) + 1, Len(built[k]))

ModifierValue(mac, m) ==
    CASE m = "alt" -> KeyModAlt
      [] m = "ctrl" -> (IF mac THEN KeyModWinCtrl ELSE KeyModCtrlCmd)
      [] m = "cmd" -> KeyModCtrlCmd

RECURSIVE SumOver(_, _)
SumOver(mac, combo) ==
    IF combo = {} THEN 0
    ELSE LET m == CHOOSE x \in combo : TRUE
         IN  ModifierValue(mac, m) + SumOver(mac, combo \ {m})

FlagOf(opts, m) ==
    CASE m = "alt" -> opts.withAltMod
      [] m = "ctrl" -> opts.withCtrlMod
      [] m = "cmd" -> opts.withCmdMod

\* The modifier combinations whose flags are all set, those with the
\* command modifier only on macOS.
FlaggedCombinations(mac, opts) ==
    { combo \in SUBSET {"alt", "ctrl", "cmd"} :
        /\ combo # {}
        /\ \A m \in combo : FlagOf(opts, m)
        /\ "cmd" \in combo => mac }

ExpectedChords(mac, primary, opts) ==
    { SumOver(mac, combo) + primary : combo \in FlaggedCombinations(mac, opts) }

\* C8: what getSecondary appends to the base secondary list is exactly one
\* chord per modifier combination whose flags are all set, command
\* combinations on macOS only; with all flags set off macOS these are
\* Alt+P, Ctrl+P and Alt+Ctrl+P, Ctrl being CtrlCmd there and WinCtrl on
\* macOS.
C8_SecondaryIsFlaggedSubset ==
    \A k \in 1..Len(built) :
        /\ SubSeq(built[k], 1, Len(BaseOfBuild(k))) = BaseOfBuild(k)
        /\ Range(AddedByBuild(k))
               = ExpectedChords(isMacintosh, baseRule0.primary, options)
        /\ Len(AddedByBuild(k))
               = Cardinality(FlaggedCombinations(isMacintosh, options))
        /\ (~isMacintosh /\ options = AllOptions) =>
               Range(AddedByBuild(k)) =
                   { KeyModAlt + baseRule0.primary,
                     KeyModCtrlCmd + baseRule0.primary,
                     KeyModAlt + KeyModCtrlCmd + baseRule0.primary }

C8_Witness ==
    /\ Len(built) >= 1
    /\ ~isMacintosh
    /\ options = AllOptions
    /\ baseRule0.primary = KeyCodePageDown
    /\ AddedByBuild(1) = << KeyModAlt + KeyCodePageDown,
                            KeyModCtrlCmd + KeyCodePageDown,
                            KeyModAlt + KeyModCtrlCmd + KeyCodePageDown >>

\* C9: building from the same base rule object twice gives the same
\* secondary list both times, and a build leaves the caller's base rule as
\* it was.
C9_BuildIsRepeatableAndPure ==
    /\ Len(built) >= 1 => baseRule = baseRule0
    /\ Len(built) >= 2 => built[1] = built[2]

ModuleRuleIds == { ModuleRules(TRUE)[k].rule.id : k \in 1..Len(ModuleRules(TRUE)) }

ModuleEntries == { k \in 1..Len(registry) : registry[k].id \in ModuleRuleIds }

ChordsOf(rule) == <<rule.primary>> \o rule.secondary

\* C10: among the rules the module registers at load, on either platform,
\* no chord is bound to two command ids and no rule lists a chord twice.
C10_ChordsAreUnambiguous ==
    /\ \A k \in ModuleEntries :
          Cardinality(Range(ChordsOf(registry[k]))) = Len(ChordsOf(registry[k]))
    /\ \A k, l \in ModuleEntries :
          registry[k].id # registry[l].id =>
              Range(ChordsOf(registry[k])) \cap Range(ChordsOf(registry[l])) = {}

C10_Witness ==
    /\ loaded = 10
    /\ isMacintosh
    /\ Cardinality({ registry[k].id : k \in ModuleEntries }) = 10
    /\ \E k \in ModuleEntries :
          /\ registry[k].id = "quickInput.nextSeparator"
          /\ Len(registry[k].secondary) = 2

====
